---- MODULE Spec2Model ----
(***************************************************************************)
(* A model of the DIDComm envelope library (src/src/index.ts): the key     *)
(* identifier codec, the base64url codec, packMessage / unpackMessage,     *)
(* the signed attachment operations and the Ready gate.                    *)
(*                                                                         *)
(* Texts are sequences of one-character strings, byte strings are          *)
(* sequences of 0..255.  The primitives of libsodium are modelled          *)
(* symbolically: a sealed box, a box, an AEAD ciphertext and a signature   *)
(* are records naming what they were made from, and opening one succeeds   *)
(* exactly when the keys, nonce and associated data are those it was made  *)
(* with.                                                                   *)
(***************************************************************************)
EXTENDS Integers, Sequences, FiniteSets, TLC

VARIABLES
    sodium,     \* the field this.sodium: "undefined" until Ready resolves
    Ready,      \* the promise this.Ready: "pending" or "resolved"
    resolved,   \* how many times res() was called
    wire,       \* what is in flight: an envelope, an attachment, or nothing
    last        \* the last operation called and what it returned or threw

vars == <<sodium, Ready, resolved, wire, last>>

(***************************************************************************)
(* Results of a call: a value, or a thrown error.                          *)
(***************************************************************************)
Ok(v) == [ok |-> TRUE, val |-> v]
Throw(e) == [ok |-> FALSE, err |-> e]

\* r's value handed on to F, or r's error passed up
Then(r, F(_)) == IF r.ok THEN F(r.val) ELSE r

\* error kinds, by the message or the origin of the thrown value
TypeError == "TypeError: property of undefined"
OnlyEd25519 == "Only ed25519 keys are supported"
UnsupportedAlg == "Unsupported pack algorithm"
InvalidRecipient == "Invalid recipient header"
SenderNotProvided == "Sender public key not provided in Authcrypt message"
RecipientNotFound == "No corresponding recipient key found in recipients"
IncorrectKeyPair == "incorrect key pair for the given ciphertext"
CannotDecrypt == "ciphertext cannot be decrypted using that key"
InvalidInput == "invalid input"
Base58BadChar == "Base58.decode received unacceptable input"
MemcmpLength == "Only instances of identical length can be compared"
InvalidSignatureLength == "invalid signature length"
InvalidPublicKeyLength == "invalid publicKey length"
NotInitialized == "NotInitialized"

(***************************************************************************)
(* Sequences                                                               *)
(***************************************************************************)
Reverse(s) == [i \in 1..Len(s) |-> s[Len(s) + 1 - i]]
Slice(s, n) == IF n >= Len(s) THEN <<>> ELSE SubSeq(s, n + 1, Len(s))
StartsWith(s, p) == Len(s) >= Len(p) /\ SubSeq(s, 1, Len(p)) = p
Repeat(x, n) == [i \in 1..n |-> x]

(***************************************************************************)
(* base-58: the package's encode and decode, digit by digit.               *)
(***************************************************************************)
ALPHABET ==
    << "1","2","3","4","5","6","7","8","9",
       "A","B","C","D","E","F","G","H","J","K","L","M","N","P","Q","R","S",
       "T","U","V","W","X","Y","Z",
       "a","b","c","d","e","f","g","h","i","j","k","m","n","o","p","q","r",
       "s","t","u","v","w","x","y","z" >>

Radix == Len(ALPHABET)

InAlphabet(c) == \E i \in 1..Radix : ALPHABET[i] = c
ALPHABET_MAP(c) == (CHOOSE i \in 1..Radix : ALPHABET[i] = c) - 1

\* The carry loop of encode and of decode over positions lo..hi of the
\* little-endian array d, in radix r, entered with carry cin:
\*     d[j] += carry; carry = d[j] / r | 0; d[j] %= r
\* The result is <<the new d[lo..hi], the carry out>>.  The loop is split in
\* halves, which computes what the left-to-right loop computes.
RECURSIVE CarryLoop(_, _, _, _, _)
CarryLoop(d, lo, hi, cin, r) ==
    IF lo > hi THEN <<(<<>>), cin>>
    ELSE IF lo = hi
    THEN LET v == d[lo] + cin IN <<(<<v % r>>), v \div r>>
    ELSE LET mid == (lo + hi) \div 2
             L == CarryLoop(d, lo, mid, cin, r)
             R == CarryLoop(d, mid + 1, hi, L[2], r)
         IN  <<L[1] \o R[1], R[2]>>

\* while (carry) { push(carry % r); carry = carry / r | 0 }
RECURSIVE PushCarry(_, _)
PushCarry(carry, r) ==
    IF carry = 0 THEN <<>> ELSE <<carry % r>> \o PushCarry(carry \div r, r)

\* one round of the outer loop: d[j] = d[j] * m for all j, d[0] += x, then
\* the carry loop and the pushes (encode: m = 256, r = 58; decode: m = 58,
\* r = 256)
Round(d, x, m, r) ==
    LET scaled == [j \in 1..Len(d) |-> IF j = 1 THEN d[j] * m + x ELSE d[j] * m]
        pass == CarryLoop(scaled, 1, Len(d), 0, r)
    IN  pass[1] \o PushCarry(pass[2], r)

\* how many leading elements equal z, never counting the last element
RECURSIVE LeadingCount(_, _, _)
LeadingCount(s, z, i) ==
    IF i < Len(s) /\ s[i] = z THEN 1 + LeadingCount(s, z, i + 1) ELSE 0

\* the outer loop of encode over buffer[lo..hi], entered with digits
RECURSIVE EncodeDigits(_, _, _, _)
EncodeDigits(buffer, lo, hi, digits) ==
    IF lo > hi THEN digits
    ELSE IF lo = hi THEN Round(digits, buffer[lo], 256, Radix)
    ELSE LET mid == (lo + hi) \div 2
             left == EncodeDigits(buffer, lo, mid, digits)
         IN  IF left = <<>> THEN left     \* never: digits holds a digit
             ELSE EncodeDigits(buffer, mid + 1, hi, left)

Base58encode(buffer) ==
    IF Len(buffer) = 0 THEN <<>>
    ELSE LET digits == Reverse(EncodeDigits(buffer, 1, Len(buffer), <<0>>) \o
                               Repeat(0, LeadingCount(buffer, 0, 1)))
         IN  [k \in 1..Len(digits) |-> ALPHABET[digits[k] + 1]]

\* the outer loop of decode over string[lo..hi], entered with bytes
RECURSIVE DecodeBytes(_, _, _, _)
DecodeBytes(string, lo, hi, bytes) ==
    IF lo > hi THEN bytes
    ELSE IF lo = hi THEN Round(bytes, ALPHABET_MAP(string[lo]), Radix, 256)
    ELSE LET mid == (lo + hi) \div 2
             left == DecodeBytes(string, lo, mid, bytes)
         IN  IF left = <<>> THEN left     \* never: bytes holds a byte
             ELSE DecodeBytes(string, mid + 1, hi, left)

\* Base58.decode: throws on a character outside the alphabet
Base58decode(string) ==
    IF Len(string) = 0 THEN Ok(<<>>)
    ELSE IF \E i \in 1..Len(string) : ~InAlphabet(string[i])
    THEN Throw(Base58BadChar)
    ELSE Ok(Reverse(DecodeBytes(string, 1, Len(string), <<0>>) \o
                    Repeat(0, LeadingCount(string, "1", 1))))

(***************************************************************************)
(* Ed25519PubEncoder                                                       *)
(***************************************************************************)
code == 60673      \* 0xed01, passed to Base58.encode as ONE array element

DidKeyZ == <<"d","i","d",":","k","e","y",":","z">>
DidKeyZ6Mk == DidKeyZ \o <<"6","M","k">>

\* `did:key:z${Base58.encode([this.code, ...bytes])}`
Ed25519PubEncoder_encode(bytes) == DidKeyZ \o Base58encode(<<code>> \o bytes)

Ed25519PubEncoder_decodeSliceOne(key) ==
    IF ~StartsWith(key, DidKeyZ6Mk) THEN Throw(OnlyEd25519)
    ELSE Then(Base58decode(Slice(key, Len(DidKeyZ))), LAMBDA d : Ok(Slice(d, 1)))

\* throws unless key.startsWith('did:key:z6Mk'); else decode the rest, slice(2)
Ed25519PubEncoder_decode(key) ==
    IF ~StartsWith(key, DidKeyZ6Mk) THEN Throw(OnlyEd25519)
    ELSE Then(Base58decode(Slice(key, Len(DidKeyZ))), LAMBDA d : Ok(Slice(d, 2)))

(***************************************************************************)
(* base64url: libsodium's to_base64 and from_base64 (sodium_bin2base64,    *)
(* sodium_base642bin) for the variants URLSAFE (padded) and                *)
(* URLSAFE_NO_PADDING.                                                     *)
(***************************************************************************)
B64URL ==
    << "A","B","C","D","E","F","G","H","I","J","K","L","M","N","O","P","Q",
       "R","S","T","U","V","W","X","Y","Z",
       "a","b","c","d","e","f","g","h","i","j","k","l","m","n","o","p","q",
       "r","s","t","u","v","w","x","y","z",
       "0","1","2","3","4","5","6","7","8","9","-","_" >>

IsB64Char(c) == \E i \in 1..Len(B64URL) : B64URL[i] = c
B64Value(c) == (CHOOSE i \in 1..Len(B64URL) : B64URL[i] = c) - 1

ByteAt(bin, i) == IF i <= Len(bin) THEN bin[i] ELSE 0

\* 64^e for e in 0..3
Pow64(e) == IF e = 0 THEN 1 ELSE IF e = 1 THEN 64 ELSE IF e = 2 THEN 4096 ELSE 262144

\* to_base64(bin, variant): 3 bytes make 4 characters, a rest of 1 byte makes
\* 2 and a rest of 2 bytes makes 3, then '=' up to a multiple of 4 when padded
to_base64(bin, padded) ==
    LET n == Len(bin)
        nchars == 4 * (n \div 3) + (IF n % 3 = 0 THEN 0 ELSE (n % 3) + 1)
        sextet(k) ==
            LET g == (k - 1) \div 4
                v == ByteAt(bin, 3 * g + 1) * 65536 + ByteAt(bin, 3 * g + 2) * 256
                     + ByteAt(bin, 3 * g + 3)
            IN  (v \div Pow64(3 - ((k - 1) % 4))) % 64
        body == [k \in 1..nchars |-> B64URL[sextet(k) + 1]]
    IN  IF padded THEN body \o Repeat("=", (4 - (nchars % 4)) % 4) ELSE body

\* how many leading characters of text are of the alphabet
RECURSIVE B64Prefix(_, _)
B64Prefix(text, i) ==
    IF i <= Len(text) /\ IsB64Char(text[i]) THEN 1 + B64Prefix(text, i + 1) ELSE 0

\* from_base64(text, URLSAFE): sextets are accumulated up to the first
\* character outside the alphabet; the bits left over must be at most 4 and
\* all zero; then exactly acc_len / 2 characters '=' must follow, and nothing
\* after them.  Anything else throws.
from_base64(text) ==
    LET n == B64Prefix(text, 1)
        acc_len == (6 * n) % 8
        nbytes == (6 * n) \div 8
        val(k) == IF k <= n THEN B64Value(text[k]) ELSE 0
        byte(i) ==
            LET g == (i - 1) \div 3
                v == val(4 * g + 1) * 262144 + val(4 * g + 2) * 4096
                     + val(4 * g + 3) * 64 + val(4 * g + 4)
            IN  IF (i - 1) % 3 = 0 THEN v \div 65536
                ELSE IF (i - 1) % 3 = 1 THEN (v \div 256) % 256
                ELSE v % 256
        \* the bits of the last sextet that belong to no byte
        leftover == IF acc_len = 0 THEN 0
                    ELSE val(n) % (IF acc_len = 2 THEN 4 ELSE IF acc_len = 4 THEN 16 ELSE 64)
        rest == Slice(text, n)
    IN  IF acc_len > 4 \/ leftover # 0 THEN Throw(InvalidInput)
        ELSE IF rest # Repeat("=", acc_len \div 2) THEN Throw(InvalidInput)
        ELSE Ok([i \in 1..nbytes |-> byte(i)])

\* the loop of b64dec: while (input.length % 4 !== 0) input += '='
PadToFour(input) == input \o Repeat("=", (4 - (Len(input) % 4)) % 4)

b64decAsGiven(input) == from_base64(input)

\* DIDComm.b64dec, once this.sodium is set
b64dec(input) == from_base64(PadToFour(input))

\* DIDComm.b64url, once this.sodium is set
b64url(input, pad) == to_base64(input, pad)

(***************************************************************************)
(* Keys.  An Ed25519 public key is 32 bytes; a private key is 64 bytes,    *)
(* the 32-byte seed followed by the public key.                            *)
(***************************************************************************)
KeyLen == 32

TestKey(a, b, f) == <<a, b>> \o Repeat(f, KeyLen - 2)

\* the public keys the model draws from: one with leading zero bytes, one in
\* the middle of the range, one of all 0xff
KEYS == << TestKey(0, 0, 17), TestKey(1, 2, 3), TestKey(255, 255, 255) >>

KeyPairOf(vk) == [publicKey |-> vk, privateKey |-> Repeat(vk[KeyLen], KeyLen) \o vk]
KeyPairs == { KeyPairOf(KEYS[i]) : i \in 1..Len(KEYS) }

null == [form |-> "null"]

\* base-58 of the model's keys, computed once by Base58encode / Base58decode
\* and looked up afterwards
BYTES == << KEYS[1], KEYS[2], KEYS[3],
            KeyPairOf(KEYS[1]).privateKey, KeyPairOf(KEYS[2]).privateKey,
            KeyPairOf(KEYS[3]).privateKey >>
BASE58 == << Base58encode(BYTES[1]), Base58encode(BYTES[2]), Base58encode(BYTES[3]),
             Base58encode(BYTES[4]), Base58encode(BYTES[5]), Base58encode(BYTES[6]) >>
DECODED == << Base58decode(BASE58[1]), Base58decode(BASE58[2]), Base58decode(BASE58[3]),
              Base58decode(BASE58[4]), Base58decode(BASE58[5]), Base58decode(BASE58[6]) >>

Base58_encode(bytes) ==
    IF \E i \in 1..Len(BYTES) : BYTES[i] = bytes
    THEN BASE58[CHOOSE i \in 1..Len(BYTES) : BYTES[i] = bytes]
    ELSE Base58encode(bytes)

Base58_decode(string) ==
    IF \E i \in 1..Len(BASE58) : BASE58[i] = string
    THEN DECODED[CHOOSE i \in 1..Len(BASE58) : BASE58[i] = string]
    ELSE Base58decode(string)

(***************************************************************************)
(* libsodium, symbolically.  Opening succeeds exactly with the keys, nonce *)
(* and associated data the box was made with; otherwise it throws.         *)
(***************************************************************************)
crypto_sign_ed25519_pk_to_curve25519(vk) == [curve25519pk |-> vk]
crypto_sign_ed25519_sk_to_curve25519(sk) == [curve25519sk |-> Slice(sk, KeyLen)]
PublicOf(sk) == [curve25519pk |-> sk.curve25519sk]

crypto_box_seal(m, pk) == [box |-> "seal", m |-> m, to |-> pk]
crypto_box_seal_open(c, pk, sk) ==
    IF c.box = "seal" /\ c.to = pk /\ PublicOf(sk) = pk
    THEN Ok(c.m) ELSE Throw(IncorrectKeyPair)

crypto_box_easy(m, nonce, pk, sk) ==
    [box |-> "easy", m |-> m, n |-> nonce, to |-> pk, from |-> PublicOf(sk)]
crypto_box_open_easy(c, nonce, pk, sk) ==
    IF c.box = "easy" /\ c.n = nonce /\ c.from = pk /\ c.to = PublicOf(sk)
    THEN Ok(c.m) ELSE Throw(IncorrectKeyPair)

\* the tag binds the associated data, the ciphertext, the nonce and the key
Mac(ciphertext, ad, npub, key) ==
    [mac |-> "poly1305", ad |-> ad, over |-> ciphertext, npub |-> npub, key |-> key]
crypto_aead_encrypt_detached(message, ad, npub, key) ==
    LET ciphertext == [enc |-> message, npub |-> npub, key |-> key]
    IN  [ciphertext |-> ciphertext, mac |-> Mac(ciphertext, ad, npub, key)]
crypto_aead_decrypt_detached(ciphertext, mac, ad, npub, key) ==
    IF mac = Mac(ciphertext, ad, npub, key)
    THEN Ok(ciphertext.enc) ELSE Throw(CannotDecrypt)

\* a signature is crypto_sign_BYTES bytes; the wrapper checks the lengths of
\* the signature and of the key before it verifies
crypto_sign_BYTES == 64
crypto_sign_detached(message, sk) ==
    [sig |-> message, by |-> Slice(sk, KeyLen), bits |-> "intact",
     bytes |-> crypto_sign_BYTES]
crypto_sign_verify_detached(signature, message, pk) ==
    IF signature.bytes # crypto_sign_BYTES THEN Throw(InvalidSignatureLength)
    ELSE IF Len(pk) # KeyLen THEN Throw(InvalidPublicKeyLength)
    ELSE Ok(signature.sig = message /\ signature.by = pk /\ signature.bits = "intact")

(***************************************************************************)
(* The base64url text of a symbolic value: the value and the form of the   *)
(* text.  "padded" is what b64url(v) gives, "unpadded" is what             *)
(* b64url(v, false) gives (the same bytes without the trailing '='),       *)
(* "invalid" is a text from_base64 rejects.  b64dec pads before decoding,  *)
(* so it accepts both of the first two.                                    *)
(***************************************************************************)
b64urlText(bin, pad) == [bin |-> bin, form |-> IF pad THEN "padded" ELSE "unpadded"]
b64decText(input) ==
    IF input.form \in {"padded", "unpadded"} THEN Ok(input.bin) ELSE Throw(InvalidInput)

\* JSON.stringify and JSON.parse of a record, and to_string of its bytes: the
\* text names the value it was made from
JSON_stringify(data) == [json |-> data]
JSON_parse(text) == text.json

\* DIDComm.strB64dec
strB64dec(input) == b64decText(input)

(***************************************************************************)
(* packMessage                                                             *)
(***************************************************************************)
\* what the random generator returns within one call: the content key, the
\* nonce of the content cipher and one nonce for each recipient, all fresh
Cek(seed) == [cek |-> seed]
Npub(seed) == [npub |-> seed]
BoxNonce(seed, i) == [nonce |-> seed, recipient |-> i]

\* one round of toKeys.forEach in prepareRecipientKeys
AuthEntry(cek, nonce, kid, targetPk, senderVk, senderSk) ==
    [encrypted_key |-> b64urlText(crypto_box_easy(cek, nonce, targetPk, senderSk), TRUE),
     header |-> [iv |-> b64urlText(nonce, TRUE),
                 kid |-> kid,
                 sender |-> b64urlText(crypto_box_seal(senderVk, targetPk), TRUE)]]

AnonEntry(cek, kid, targetPk) ==
    [encrypted_key |-> b64urlText(crypto_box_seal(cek, targetPk), TRUE),
     header |-> [iv |-> null, kid |-> kid, sender |-> null]]

RecipientEntry(targetVk, i, fromKeys, seed) ==
    IF fromKeys # null
    THEN AuthEntry(Cek(seed), BoxNonce(seed, i), Base58_encode(targetVk),
                   crypto_sign_ed25519_pk_to_curve25519(targetVk),
                   Base58_encode(fromKeys.publicKey),
                   crypto_sign_ed25519_sk_to_curve25519(fromKeys.privateKey))
    ELSE AnonEntry(Cek(seed), Base58_encode(targetVk),
                   crypto_sign_ed25519_pk_to_curve25519(targetVk))

\* returns <<recipsJson, cek>>
prepareRecipientKeys(toKeys, fromKeys, seed) ==
    << JSON_stringify(
           [alg |-> IF fromKeys # null THEN "Authcrypt" ELSE "Anoncrypt",
            enc |-> "xchacha20poly1305_ietf",
            recipients |->
                [i \in 1..Len(toKeys) |-> RecipientEntry(toKeys[i], i, fromKeys, seed)],
            typ |-> "JWM/1.0"]),
       Cek(seed) >>

\* returns <<ciphertext, mac, iv>>
EncryptedWith(out, iv) == <<out.ciphertext, out.mac, iv>>
encryptPlaintext(message, addData, key, seed) ==
    EncryptedWith(crypto_aead_encrypt_detached(message, addData, Npub(seed), key),
                  Npub(seed))

\* the envelope of packMessage, from recipsB64 and [ciphertext, tag, iv]
Assemble(recipsB64, encrypted) ==
    [ciphertext |-> b64urlText(encrypted[1], TRUE),
     iv |-> b64urlText(encrypted[3], TRUE),
     protected |-> recipsB64,
     tag |-> b64urlText(encrypted[2], TRUE)]

Encrypt(message, recipsB64, cek, seed) ==
    Assemble(recipsB64, encryptPlaintext(message, recipsB64, cek, seed))

PackPrepared(message, prepared, seed) ==
    Encrypt(message, b64urlText(prepared[1], TRUE), prepared[2], seed)

packMessage(message, toKeys, fromKeys, seed) ==
    IF sodium = "undefined" THEN Throw(TypeError)
    ELSE Ok(PackPrepared(message, prepareRecipientKeys(toKeys, fromKeys, seed), seed))

(***************************************************************************)
(* unpackMessage                                                           *)
(***************************************************************************)
absent == [form |-> "absent"]

Optional(field) == IF field # null THEN b64decText(field) ELSE Ok(null)

\* the branch of locateRecKey taken when nonce && encSender
OpenAuthcrypt(recip, index, encrytpedKey, nonce, encSender, pk, sk) ==
    Then(crypto_box_seal_open(encSender, pk, sk), LAMBDA senderVk :
    Then(Base58_decode(senderVk), LAMBDA senderBytes :
    Then(crypto_box_open_easy(encrytpedKey, nonce,
                              crypto_sign_ed25519_pk_to_curve25519(senderBytes), sk),
         LAMBDA cek :
    Ok([cek |-> cek, senderVk |-> [string |-> senderVk],
        recipVk |-> recip.header.kid, index |-> index]))))

\* the other branch
OpenAnoncrypt(recip, index, encrytpedKey, pk, sk) ==
    Then(crypto_box_seal_open(encrytpedKey, pk, sk), LAMBDA cek :
    Ok([cek |-> cek, senderVk |-> null,
        recipVk |-> recip.header.kid, index |-> index]))

\* the body of the for loop of locateRecKey for recipients[index].  Every
\* path through it throws or returns: the loop never reaches a second round.
\* The result of memcmp is pushed to notFound, which nothing reads.
LocateRound(recip, index, keys, pk, sk) ==
    IF recip.header = absent \/ recip.encrypted_key = absent
    THEN Throw(InvalidRecipient)
    ELSE
    Then(Base58_decode(recip.header.kid), LAMBDA recipVk :
    IF Len(recipVk) # Len(keys.publicKey) THEN Throw(MemcmpLength)
    ELSE
    Then(b64decText(recip.encrypted_key), LAMBDA encrytpedKey :
    Then(Optional(recip.header.iv), LAMBDA nonce :
    Then(Optional(recip.header.sender), LAMBDA encSender :
    IF nonce # null /\ encSender # null
    THEN OpenAuthcrypt(recip, index, encrytpedKey, nonce, encSender, pk, sk)
    ELSE OpenAnoncrypt(recip, index, encrytpedKey, pk, sk)))))

\* for (let index in recipients) { ... return }; throw new Error(...)
locateRecKey(recipients, keys) ==
    IF Len(recipients) >= 1
    THEN LocateRound(recipients[1], 1, keys,
                     crypto_sign_ed25519_pk_to_curve25519(keys.publicKey),
                     crypto_sign_ed25519_sk_to_curve25519(keys.privateKey))
    ELSE Throw(RecipientNotFound)

decryptPlaintextReencoded(ciphertext, mac, recipsBin, nonce, key) ==
    crypto_aead_decrypt_detached(ciphertext, mac, b64urlText(recipsBin.bin, TRUE),
                                 nonce, key)

decryptPlaintext(ciphertext, mac, recipsBin, nonce, key) ==
    crypto_aead_decrypt_detached(ciphertext, mac, recipsBin, nonce, key)

\* a key field given as base-58 text is decoded first
Normalize(field) ==
    IF field.type = "string" THEN Base58_decode(field.v) ELSE Ok(field.v)

\* unpackMessage from the parsed protected header on
UnpackParsed(wrapper, keys, recipsOuter) ==
    IF recipsOuter.alg # "Authcrypt" /\ recipsOuter.alg # "Anoncrypt"
    THEN Throw(UnsupportedAlg)
    ELSE
    Then(locateRecKey(recipsOuter.recipients, keys), LAMBDA located :
    IF located.senderVk = null /\ recipsOuter.alg = "Authcrypt"
    THEN Throw(SenderNotProvided)
    ELSE
    Then(b64decText(wrapper.ciphertext), LAMBDA ciphertext :
    Then(b64decText(wrapper.iv), LAMBDA nonce :
    Then(b64decText(wrapper.tag), LAMBDA tag :
    Then(decryptPlaintext(ciphertext, tag, wrapper.protected, nonce, located.cek),
         LAMBDA message :
    Ok([message |-> message,
        recipientKey |-> located.recipVk,
        senderKey |-> located.senderVk,
        entry |-> located.index]))))))     \* (entry: which entry gave the key)

unpackMessage(wrapper, toKeys) ==
    Then(Normalize(toKeys.publicKey), LAMBDA publicKey :
    Then(Normalize(toKeys.privateKey), LAMBDA privateKey :
    IF sodium = "undefined" THEN Throw(TypeError)
    ELSE
    Then(strB64dec(wrapper.protected), LAMBDA recipsJson :
    UnpackParsed(wrapper, [publicKey |-> publicKey, privateKey |-> privateKey],
                 JSON_parse(recipsJson)))))

(***************************************************************************)
(* Signed attachments                                                      *)
(***************************************************************************)
ProtectedHeaders(didkey, publicKey) ==
    b64urlText(JSON_stringify(
        [alg |-> "EdDSA",
         jwk |-> [crv |-> "Ed25519", kid |-> didkey, kty |-> "OKP",
                  x |-> b64urlText(publicKey, FALSE)],
         kid |-> didkey]), FALSE)

\* `${protectedHeaders}.${sigData}`
SigningInput(protectedHeaders, sigData) == <<protectedHeaders, ".", sigData>>

SignedWithSwapped(didkey, protectedHeaders, sigData, privateKey) ==
    [data |->
        [base64 |-> sigData,
         jws |-> [header |-> [kid |-> didkey],
                  protected |-> protectedHeaders,
                  signature |->
                      b64urlText(crypto_sign_detached(
                          SigningInput(sigData, protectedHeaders), privateKey), FALSE)]],
     mime_type |-> "application/json"]

SignedWith(didkey, protectedHeaders, sigData, privateKey) ==
    [data |->
        [base64 |-> sigData,
         jws |-> [header |-> [kid |-> didkey],
                  protected |-> protectedHeaders,
                  signature |->
                      b64urlText(crypto_sign_detached(
                          SigningInput(protectedHeaders, sigData), privateKey), FALSE)]],
     mime_type |-> "application/json"]

SignedAs(didkey, data, keys) ==
    SignedWith(didkey, ProtectedHeaders(didkey, keys.publicKey),
               b64urlText(JSON_stringify(data), FALSE), keys.privateKey)

signedAttachment(data, keys) ==
    IF sodium = "undefined" THEN Throw(TypeError)
    ELSE Ok(SignedAs(Ed25519PubEncoder_encode(keys.publicKey), data, keys))

\* the arguments of the verification are evaluated in order: the signature is
\* decoded, then the kid, and then the signature is verified
verifySignedAttachment(attachment) ==
    IF sodium = "undefined" THEN Throw(TypeError)
    ELSE
    Then(b64decText(attachment.data.jws.signature), LAMBDA signature :
    Then(Ed25519PubEncoder_decode(attachment.data.jws.header.kid), LAMBDA pk :
    crypto_sign_verify_detached(
        signature,
        SigningInput(attachment.data.jws.protected, attachment.data.base64),
        pk)))

decodeSignedAttachment(attachment) ==
    IF sodium = "undefined" THEN Throw(TypeError)
    ELSE Then(strB64dec(attachment.data.base64), LAMBDA text : Ok(JSON_parse(text)))

\* DIDComm.generateKeyPair: the keypair is the random generator's choice
generateKeyPair(keypair) ==
    IF sodium = "undefined" THEN Throw(TypeError) ELSE Ok(keypair)

\* DIDComm.b64dec before and after this.sodium is set
DIDComm_b64dec(input) ==
    IF sodium = "undefined" THEN Throw(TypeError) ELSE b64dec(input)

(***************************************************************************)
(* The calls and what they are called with                                 *)
(***************************************************************************)
MaxRecips == 2

MESSAGES == {"I AM A PRIVATE MESSAGE", "another message!"}
SEEDS == {"r1", "r2"}
KEYSET == { KEYS[i] : i \in 1..Len(KEYS) }
RecipientLists == UNION { [1..n -> KEYSET] : n \in 0..MaxRecips }

\* a keypair as the caller hands it to unpackMessage: raw, or as base-58 text
Raw(kp) == [publicKey |-> [type |-> "Uint8Array", v |-> kp.publicKey],
            privateKey |-> [type |-> "Uint8Array", v |-> kp.privateKey]]
Encoded(kp) == [publicKey |-> [type |-> "string", v |-> Base58_encode(kp.publicKey)],
                privateKey |-> [type |-> "string", v |-> Base58_encode(kp.privateKey)]]

NoWire == [kind |-> "none"]
Idle == [op |-> "none"]

Unchanged == [field |-> "none", how |-> "none", entry |-> 0]

Envelope(env, origin) ==
    [kind |-> "envelope", env |-> env, origin |-> origin, tampered |-> Unchanged]

Init ==
    /\ sodium = "undefined"
    /\ Ready = "pending"
    /\ resolved = 0
    /\ wire = NoWire
    /\ last = Idle

\* the constructor's promise: await sodium.ready; this.sodium = sodium; res()
ResolveReady ==
    /\ Ready = "pending"
    /\ sodium' = "sodium"
    /\ Ready' = "resolved"
    /\ resolved' = resolved + 1
    /\ UNCHANGED <<wire, last>>

\* a call that returned res and, when it returned a value, put sent in flight
Called(op, res, sent) ==
    /\ last' = [op |-> op, init |-> sodium # "undefined", res |-> res]
    /\ wire' = IF res.ok THEN sent ELSE wire
    /\ UNCHANGED <<sodium, Ready, resolved>>

Packed(res, origin) ==
    Called("packMessage", res, Envelope(IF res.ok THEN res.val ELSE null, origin))

PackMessage(message, toKeys, fromKeys, seed) ==
    /\ wire = NoWire
    /\ Packed(packMessage(message, toKeys, fromKeys, seed),
              [by |-> "packMessage", message |-> message,
               toKeys |-> toKeys, fromKeys |-> fromKeys])

UnpackMessage(kp, asText) ==
    /\ wire.kind = "envelope"
    /\ last' = [op |-> "unpackMessage", init |-> sodium # "undefined",
                key |-> kp.publicKey,
                res |-> unpackMessage(wire.env, IF asText THEN Encoded(kp) ELSE Raw(kp))]
    /\ UNCHANGED <<sodium, Ready, resolved, wire>>

\* An envelope from a packer that is not this library: the content key is
\* sealed to toKeys[i], and entry i is labelled with the kid of labels[i].
ForeignEnvelope(message, toKeys, labels, seed) ==
    Encrypt(message,
            b64urlText(JSON_stringify(
                [alg |-> "Anoncrypt",
                 enc |-> "xchacha20poly1305_ietf",
                 recipients |->
                     [i \in 1..Len(toKeys) |->
                         AnonEntry(Cek(seed), Base58_encode(labels[i]),
                                   crypto_sign_ed25519_pk_to_curve25519(toKeys[i]))],
                 typ |-> "JWM/1.0"]), TRUE),
            Cek(seed), seed)

Receive(message, toKeys, labels, seed) ==
    /\ wire = NoWire
    /\ wire' = Envelope(ForeignEnvelope(message, toKeys, labels, seed),
                        [by |-> "foreign", message |-> message,
                         toKeys |-> toKeys, fromKeys |-> null])
    /\ last' = Idle
    /\ UNCHANGED <<sodium, Ready, resolved>>

(***************************************************************************)
(* Changes made to an envelope of packMessage in flight                    *)
(***************************************************************************)
Untouched == wire.kind = "envelope" /\ wire.tampered = Unchanged
                /\ wire.origin.by = "packMessage"

Changed(field, how, entry, env) ==
    /\ wire' = [wire EXCEPT !.env = env,
                            !.tampered = [field |-> field, how |-> how, entry |-> entry]]
    /\ last' = Idle
    /\ UNCHANGED <<sodium, Ready, resolved>>

\* the same bytes without '=' ("strip"), or a text that is not base64url
Retext(text, how) == [text EXCEPT !.form = IF how = "strip" THEN "unpadded" ELSE "invalid"]

TamperCiphertext(how) ==
    /\ Untouched
    /\ \/ /\ how = "bytes"
          /\ \E m \in MESSAGES \ {wire.env.ciphertext.bin.enc} :
                Changed("ciphertext", how, 0, [wire.env EXCEPT !.ciphertext.bin.enc = m])
       \/ /\ how \in {"strip", "invalid"}
          /\ Changed("ciphertext", how, 0,
                      [wire.env EXCEPT !.ciphertext = Retext(wire.env.ciphertext, how)])

TamperTag(how) ==
    /\ Untouched
    /\ \/ /\ how = "bytes"
          /\ Changed("tag", how, 0, [wire.env EXCEPT !.tag.bin.mac = "flipped"])
       \/ /\ how \in {"strip", "invalid"}
          /\ Changed("tag", how, 0, [wire.env EXCEPT !.tag = Retext(wire.env.tag, how)])

Header == wire.env.protected.bin.json
WithHeader(h) == [wire.env EXCEPT !.protected.bin.json = h]

\* the protected text re-encoded or broken, its JSON unchanged
TamperProtectedText(how) ==
    /\ Untouched
    /\ how \in {"strip", "invalid"}
    /\ Changed("protected", how, 0,
                [wire.env EXCEPT !.protected = Retext(wire.env.protected, how)])

TamperAlg(alg) ==
    /\ Untouched
    /\ alg # Header.alg
    /\ Changed("protected", "alg", 0, WithHeader([Header EXCEPT !.alg = alg]))

StripSender(i) ==
    /\ Untouched
    /\ i \in 1..Len(Header.recipients)
    /\ Header.recipients[i].header.sender # null
    /\ Changed("protected", "sender", i,
                WithHeader([Header EXCEPT !.recipients[i].header.sender = null]))

Relabel(i, vk) ==
    /\ Untouched
    /\ i \in 1..Len(Header.recipients)
    /\ Header.recipients[i].header.kid # Base58_encode(vk)
    /\ Changed("protected", "kid", i,
                WithHeader([Header EXCEPT !.recipients[i].header.kid = Base58_encode(vk)]))

DropEncryptedKey(i) ==
    /\ Untouched
    /\ i \in 1..Len(Header.recipients)
    /\ Changed("protected", "encrypted_key", i,
                WithHeader([Header EXCEPT !.recipients[i].encrypted_key = absent]))

Reorder ==
    /\ Untouched
    /\ Reverse(Header.recipients) # Header.recipients
    /\ Changed("protected", "order", 0,
                WithHeader([Header EXCEPT !.recipients = Reverse(Header.recipients)]))

NextEnvelope ==
    \/ ResolveReady
    \/ \E m \in MESSAGES, R \in RecipientLists, from \in KeyPairs \cup {null}, seed \in SEEDS :
          PackMessage(m, R, from, seed)
    \/ \E kp \in KeyPairs, asText \in BOOLEAN : UnpackMessage(kp, asText)
    \/ \E m \in MESSAGES, R \in RecipientLists \ {<<>>}, vk \in KEYSET, seed \in SEEDS :
          Receive(m, R, [i \in 1..Len(R) |-> vk], seed)
    \/ \E how \in {"bytes", "strip", "invalid"} : TamperCiphertext(how)
    \/ \E how \in {"bytes", "strip", "invalid"} : TamperTag(how)
    \/ \E how \in {"strip", "invalid"} : TamperProtectedText(how)
    \/ \E alg \in {"Authcrypt", "Anoncrypt", "none"} : TamperAlg(alg)
    \/ \E i \in 1..MaxRecips : StripSender(i)
    \/ \E i \in 1..MaxRecips, vk \in KEYSET : Relabel(i, vk)
    \/ \E i \in 1..MaxRecips : DropEncryptedKey(i)
    \/ Reorder

SpecEnvelope == Init /\ [][NextEnvelope]_vars

(***************************************************************************)
(* Signed attachments in flight                                            *)
(***************************************************************************)
PAYLOADS == { [test |-> "test"], [amount |-> "12"] }

Attachment(attachment, origin) ==
    [kind |-> "attachment", att |-> attachment, origin |-> origin,
     tampered |-> Unchanged]

Signed(res, origin) ==
    Called("signedAttachment", res, Attachment(IF res.ok THEN res.val ELSE null, origin))

SignedAttachment(data, keys) ==
    /\ wire = NoWire
    /\ Signed(signedAttachment(data, keys),
              [by |-> "signedAttachment", data |-> data, keys |-> keys])

\* an attachment signed by another instance of the library
ReceiveAttachment(data, keys) ==
    /\ wire = NoWire
    /\ wire' = Attachment(SignedAs(Ed25519PubEncoder_encode(keys.publicKey), data, keys),
                          [by |-> "foreign", data |-> data, keys |-> keys])
    /\ last' = Idle
    /\ UNCHANGED <<sodium, Ready, resolved>>

VerifySignedAttachment ==
    /\ wire.kind = "attachment"
    /\ last' = [op |-> "verifySignedAttachment", init |-> sodium # "undefined",
                res |-> verifySignedAttachment(wire.att)]
    /\ UNCHANGED <<sodium, Ready, resolved, wire>>

DecodeSignedAttachment ==
    /\ wire.kind = "attachment"
    /\ last' = [op |-> "decodeSignedAttachment", init |-> sodium # "undefined",
                res |-> decodeSignedAttachment(wire.att)]
    /\ UNCHANGED <<sodium, Ready, resolved, wire>>

Intact == wire.kind = "attachment" /\ wire.tampered = Unchanged

ChangedAttachment(field, how, attachment) ==
    /\ wire' = [wire EXCEPT !.att = attachment,
                            !.tampered = [field |-> field, how |-> how, entry |-> 0]]
    /\ last' = Idle
    /\ UNCHANGED <<sodium, Ready, resolved>>

\* the signature text changed: other bytes of the same length ("bytes"), the
\* same bytes with the '=' added ("pad"), a text that is not base64url
\* ("invalid"), or the text of fewer bytes ("truncate")
Resigned(signature, how) ==
    IF how = "bytes" THEN [signature EXCEPT !.bin.bits = "flipped"]
    ELSE IF how = "pad" THEN [signature EXCEPT !.form = "padded"]
    ELSE IF how = "invalid" THEN [signature EXCEPT !.form = "invalid"]
    ELSE [signature EXCEPT !.bin.bytes = crypto_sign_BYTES - 1]

TamperSignature(how) ==
    /\ Intact
    /\ ChangedAttachment("signature", how,
           [wire.att EXCEPT !.data.jws.signature =
                                Resigned(wire.att.data.jws.signature, how)])

\* jws.header.kid replaced by the identifier of another Ed25519 key
ReplaceKid(vk) ==
    /\ Intact
    /\ vk # wire.origin.keys.publicKey
    /\ ChangedAttachment("kid", "key",
           [wire.att EXCEPT !.data.jws.header.kid = Ed25519PubEncoder_encode(vk)])

(***************************************************************************)
(* The other public operations                                             *)
(***************************************************************************)
GenerateKeyPair(keypair) ==
    /\ last' = [op |-> "generateKeyPair", init |-> sodium # "undefined",
                res |-> generateKeyPair(keypair)]
    /\ UNCHANGED <<sodium, Ready, resolved, wire>>

\* the texts b64dec is called with: of 3, 2 and 1 bytes, padded and not, and
\* one that is no base64url text
TEXTS == { <<"T","W","F","u">>, <<"T","W","E">>, <<"T","W","E","=">>,
           <<"T","Q">>, <<"T","Q","=","=">>, <<"T","*">> }

B64dec(input) ==
    /\ last' = [op |-> "b64dec", init |-> sodium # "undefined", input |-> input,
                res |-> DIDComm_b64dec(input)]
    /\ UNCHANGED <<sodium, Ready, resolved, wire>>

NextAttach ==
    \/ ResolveReady
    \/ \E data \in PAYLOADS, keys \in KeyPairs : SignedAttachment(data, keys)
    \/ \E data \in PAYLOADS, keys \in KeyPairs : ReceiveAttachment(data, keys)
    \/ VerifySignedAttachment
    \/ DecodeSignedAttachment
    \/ \E how \in {"bytes", "pad", "invalid", "truncate"} : TamperSignature(how)
    \/ \E vk \in KEYSET : ReplaceKid(vk)

SpecAttach == Init /\ [][NextAttach]_vars

Next ==
    \/ NextEnvelope
    \/ NextAttach
    \/ \E keypair \in KeyPairs : GenerateKeyPair(keypair)
    \/ \E input \in TEXTS : B64dec(input)

Spec == Init /\ [][Next]_vars

(***************************************************************************)
(* The key identifier codec on its own: encode and decode applied to keys  *)
(* and to identifiers drawn in the initial state                           *)
(***************************************************************************)
CodecKeys ==
    { TestKey(a, b, f) : a \in {0, 1, 127, 255}, b \in {0, 128, 255}, f \in {0, 77, 255} }

\* identifiers that encode did not make: seven without the prefix
\* 'did:key:z6Mk', one with it and a character that is not base-58, one with
\* it and nothing else
OtherIdentifiers ==
    { <<>>,
      <<"d","i","d",":","k","e","y",":","z">>,
      <<"d","i","d",":","k","e","y",":","z","6","L","S","b","y","s","Y","2","x","F","M">>,
      <<"6","M","k","p","T","H","R","8","V","N","s">>,
      <<"d","i","d",":","k","e","y",":","z","6","M","K","1">>,
      <<"D","I","D",":","K","E","Y",":","Z","6","M","k","1">>,
      <<"d","i","d",":","k","e","y",":","z","6","M","k","0">>,
      <<"d","i","d",":","k","e","y",":","z","6","M","k">> }

InitCodec ==
    /\ sodium = "undefined"
    /\ Ready = "pending"
    /\ resolved = 0
    /\ last = Idle
    /\ wire \in { [kind |-> "key", key |-> k] : k \in CodecKeys }
            \cup { [kind |-> "identifier", text |-> t, of |-> <<>>] : t \in OtherIdentifiers }

Identified(text, key) ==
    /\ wire' = [kind |-> "identifier", text |-> text, of |-> key]
    /\ last' = [op |-> "encode", res |-> Ok(text)]
    /\ UNCHANGED <<sodium, Ready, resolved>>

Encode ==
    /\ wire.kind = "key"
    /\ Identified(Ed25519PubEncoder_encode(wire.key), wire.key)

Decode ==
    /\ wire.kind = "identifier"
    /\ last' = [op |-> "decode", res |-> Ed25519PubEncoder_decode(wire.text)]
    /\ UNCHANGED <<sodium, Ready, resolved, wire>>

NextCodec == Encode \/ Decode

SpecCodec == InitCodec /\ [][NextCodec]_vars

(***************************************************************************)
(* b64dec on its own: applied to the base64url text, padded and not, of    *)
(* byte strings drawn in the initial state                                 *)
(***************************************************************************)
MaxBytes == 4
BYTEVALUES == {0, 77, 255}
ByteStrings == UNION { [1..n -> BYTEVALUES] : n \in 0..MaxBytes }

InitB64 ==
    /\ sodium = "undefined"
    /\ Ready = "pending"
    /\ resolved = 0
    /\ last = Idle
    /\ wire \in { [kind |-> "bytes", bytes |-> b] : b \in ByteStrings }

\* the base64url text of the bytes, with the '=' or without
Text(pad) ==
    /\ wire.kind = "bytes"
    /\ wire' = [kind |-> "text", text |-> to_base64(wire.bytes, pad),
                of |-> wire.bytes, pad |-> pad]
    /\ last' = Idle
    /\ UNCHANGED <<sodium, Ready, resolved>>

B64decText ==
    /\ wire.kind = "text"
    /\ B64dec(wire.text)

NextB64 ==
    \/ ResolveReady
    \/ \E pad \in BOOLEAN : Text(pad)
    \/ B64decText

SpecB64 == InitB64 /\ [][NextB64]_vars

(***************************************************************************)
(* Claims about packMessage and unpackMessage, under SpecEnvelope          *)
(***************************************************************************)
\* unpackMessage was called, with this.sodium set, on the envelope in flight
Unpacked == last.op = "unpackMessage" /\ last.init /\ wire.kind = "envelope"
\* ... and the envelope is one of packMessage, as it was made
UnpackedAsPacked ==
    Unpacked /\ wire.origin.by = "packMessage" /\ wire.tampered = Unchanged
Listed(vk, toKeys) == \E i \in 1..Len(toKeys) : toKeys[i] = vk
Recipients == wire.env.protected.bin.json.recipients

\* C1: an envelope of packMessage(m, R, sender), R of length >= 1, unpacked
\* with a keypair whose public key occurs anywhere in R, gives message m,
\* with a sender keypair and with none.
C1_RoundTripAnyPosition ==
    (UnpackedAsPacked /\ Listed(last.key, wire.origin.toKeys))
        => (last.res.ok /\ last.res.val.message = wire.origin.message)

\* C2: unpackMessage with a keypair whose public key is the kid of no entry
\* of the recipients list throws RecipientNotFound, and nothing else.
C2_RecipientNotFound ==
    (Unpacked /\ wire.tampered = Unchanged
        /\ \A i \in 1..Len(Recipients) :
              Recipients[i].header.kid # Base58_encode(last.key))
        => last.res = Throw(RecipientNotFound)

\* C3: without a sender keypair packMessage gives alg Anoncrypt and iv, sender
\* null in every entry; with one it gives alg Authcrypt and both non-null in
\* every entry, and unpackMessage by a listed recipient returns as senderKey
\* the base-58 text of the sender's public key.
C3_ModeIsGlobal ==
    /\ (wire.kind = "envelope" /\ wire.origin.by = "packMessage"
            /\ wire.tampered = Unchanged)
        => IF wire.origin.fromKeys = null
           THEN /\ wire.env.protected.bin.json.alg = "Anoncrypt"
                /\ \A i \in 1..Len(Recipients) :
                      /\ Recipients[i].header.iv = null
                      /\ Recipients[i].header.sender = null
           ELSE /\ wire.env.protected.bin.json.alg = "Authcrypt"
                /\ \A i \in 1..Len(Recipients) :
                      /\ Recipients[i].header.iv # null
                      /\ Recipients[i].header.sender # null
    /\ (UnpackedAsPacked /\ wire.origin.fromKeys # null
            /\ Listed(last.key, wire.origin.toKeys))
        => /\ last.res.ok
           /\ last.res.val.senderKey =
                  [string |-> Base58_encode(wire.origin.fromKeys.publicKey)]

\* C4: an Authcrypt envelope whose entry for the caller's key lost its sealed
\* sender field makes unpackMessage throw 'Sender public key not provided in
\* Authcrypt message'.
C4_MissingSenderKey ==
    (Unpacked /\ wire.tampered.field = "protected" /\ wire.tampered.how = "sender"
        /\ wire.origin.toKeys[wire.tampered.entry] = last.key)
        => last.res = Throw(SenderNotProvided)

C10_RecipientKeyIsCallersKey ==
    (Unpacked /\ last.res.ok)
        => /\ Recipients[last.res.val.entry].header.kid = last.res.val.recipientKey
           /\ Base58_decode(last.res.val.recipientKey) = Ok(last.key)

(***************************************************************************)
(* Claims about the signed attachment operations, under SpecAttach         *)
(***************************************************************************)
Verified ==
    last.op = "verifySignedAttachment" /\ last.init /\ wire.kind = "attachment"
Decoded ==
    last.op = "decodeSignedAttachment" /\ last.init /\ wire.kind = "attachment"

C7_ReadinessGate ==
    /\ (last.op # "none" /\ ~last.init) => last.res = Throw(NotInitialized)
    /\ resolved <= 1
    /\ (Ready = "resolved") = (resolved = 1)
    /\ (Ready = "resolved") = (sodium # "undefined")

(***************************************************************************)
(* The claim about the key identifier codec, under SpecCodec               *)
(***************************************************************************)
\* C8: the identifier of a 32-byte key is 'did:key:z' and the base-58 text of
\* the bytes 0xed, 0x01 followed by the key; decoding it gives the key back;
\* decoding a string that does not start with 'did:key:z6Mk' throws 'Only
\* ed25519 keys are supported'.
C8_IdentifierRoundTrip ==
    /\ (last.op = "encode")
        => /\ StartsWith(wire.text, DidKeyZ)
           /\ Base58decode(Slice(wire.text, Len(DidKeyZ))) = Ok(<<237, 1>> \o wire.of)
    /\ (last.op = "decode" /\ Len(wire.of) = KeyLen) => last.res = Ok(wire.of)
    /\ (last.op = "decode" /\ ~StartsWith(wire.text, DidKeyZ6Mk))
        => last.res = Throw(OnlyEd25519)

C8_Witness ==
    /\ last.op = "decode"
    /\ Len(wire.of) = KeyLen /\ wire.of[1] = 0 /\ wire.of[2] = 0
    /\ last.res = Ok(wire.of)

(***************************************************************************)
(* The claim about b64dec, under SpecB64                                   *)
(***************************************************************************)
\* C9: b64dec of the base64url text of bytes b, with the '=' or without,
\* returns b; what it decodes is its input followed by as few '=' as make
\* the length a multiple of 4.
C9_PaddingTolerance ==
    (last.op = "b64dec" /\ last.init /\ wire.kind = "text")
        => /\ last.res = Ok(wire.of)
           /\ Len(PadToFour(wire.text)) % 4 = 0
           /\ Len(PadToFour(wire.text)) < Len(wire.text) + 4
           /\ PadToFour(wire.text) =
                  wire.text \o Repeat("=", Len(PadToFour(wire.text)) - Len(wire.text))
           /\ last.res = from_base64(PadToFour(wire.text))

C9_Witness ==
    /\ last.op = "b64dec" /\ last.init /\ wire.kind = "text"
    /\ ~wire.pad /\ Len(wire.text) % 4 = 2
    /\ last.res = Ok(wire.of)

====
